---- MODULE Spec2Model ----
(***************************************************************************)
(* Kyma uninstallation (package deployment, type Deletion).                *)
(*                                                                         *)
(*   startKymaUninstallation : two Supervisor runs (uninstallComponents)   *)
(*                             followed by deleteKymaNamespaces            *)
(*   uninstallComponents     : select loop over the Engine's status        *)
(*                             channel and two time.After channels         *)
(*   deleteKymaNamespaces    : retry-gated pre-check, one goroutine per    *)
(*                             namespace, WaitGroup, unbuffered errorCh    *)
(*                                                                         *)
(* A time.After channel is modelled by three values: "pending" (the timer  *)
(* has not fired), "fired" (the runtime has put the time on the channel)   *)
(* and "consumed" (the select has received it).  A select with several     *)
(* ready cases takes any of them.                                          *)
(***************************************************************************)
EXTENDS Integers, Sequences, FiniteSets, TLC

\* ------------------------------------------------------------------ bounds
MaxTime == 3        \* the clock stops advancing here
MaxBudget == 2      \* largest configured QuitTimeout
MaxEvents == 2      \* status events one Engine run emits at most
StatusChanCap == 1  \* capacity of the Engine's status channel
MaxAttempts == 2    \* attempts of the injected retry policy
MaxItems == 1       \* objects one List call returns at most

\* ------------------------------------------------------------ vocabulary
UninstallComponents == "UninstallComponents"
UninstallPreRequisites == "UninstallPreRequisites"
Phases == {UninstallComponents, UninstallPreRequisites}

ProcessStart == "ProcessStart"
ProcessFinished == "ProcessFinished"
ProcessExecutionFailure == "ProcessExecutionFailure"
ProcessTimeoutFailure == "ProcessTimeoutFailure"
ProcessForceQuitFailure == "ProcessForceQuitFailure"
ComponentUpdate == "ComponentUpdate"
TerminalEvents ==
  {ProcessFinished, ProcessExecutionFailure, ProcessTimeoutFailure, ProcessForceQuitFailure}
FailureEvents ==
  {ProcessExecutionFailure, ProcessTimeoutFailure, ProcessForceQuitFailure}

StatusError == "Error"
StatusSuccess == "Success"
Statuses == {StatusSuccess, StatusError}
ComponentNames == 1..MaxEvents   \* the i-th component of the Engine's list
NoStatus == "-"

\* error values: nil, or a kind with what its message carries: the number of
\* failed components (n), or the messages of the cluster errors it wraps (msg)
Nil == [kind |-> "nil", n |-> 0, msg |-> <<>>]
NoResult == [kind |-> "none", n |-> 0, msg |-> <<>>]
ErrComponents(n) == [kind |-> "ComponentFailure", n |-> n, msg |-> <<>>]
ErrTimeout == [kind |-> "TimeoutFailure", n |-> 0, msg |-> <<>>]
ErrForceQuit == [kind |-> "ForceQuitFailure", n |-> 0, msg |-> <<>>]
ErrEngineStart == [kind |-> "EngineStartError", n |-> 0, msg |-> <<>>]
ErrMetadata == [kind |-> "NamespacesError", n |-> 0, msg |-> <<>>]
ErrTeardown(m) == [kind |-> "TeardownError", n |-> 0, msg |-> m]

\* namespaces and cluster operations of deleteKymaNamespaces
KymaSystem == "kyma-system"
KymaInstaller == "kyma-installer"
\* what mp.Namespaces() returns in a whole run, and the lists deleteKymaNamespaces
\* is called with when it is exercised on its own
RunMetadataLists == {<<>>}
TeardownLists ==
  { <<KymaInstaller>>,
    <<KymaSystem, KymaInstaller>>,
    <<"kyma-integration", "istio-system", KymaInstaller>> }

FetchOps == {"CSBList", "SBList", "SecretGet", "RulesList"}
UpdateOps == {"CSBUpdate", "SBUpdate", "SecretUpdate", "RulesUpdate"}
Ops == FetchOps \cup UpdateOps \cup {"Delete"}
UpdateOp ==
  [CSBList |-> "CSBUpdate", SBList |-> "SBUpdate", SecretGet |-> "SecretUpdate",
   RulesList |-> "RulesUpdate"]
FollowOp ==
  [CSBList |-> "SBList", CSBUpdate |-> "SBList", SBList |-> "SecretGet",
   SBUpdate |-> "SecretGet", SecretGet |-> "RulesList", SecretUpdate |-> "RulesList",
   RulesList |-> "Delete", RulesUpdate |-> "Delete", Delete |-> "exit"]

\* error kinds of a cluster call; NoErr is the nil error
NoErr == "nil"
NotFound == "NotFound"
OtherErr == "Other"

VARIABLES
  \* orchestrator (startKymaUninstallation)
  pc, result, cfg, now, startTime, endTime, ctxCancelled,
  \* Supervisor invocation (uninstallComponents)
  phase, supPc, cancelTimeout, quitTimeout, timerStart,
  cancelTimeoutChan, quitTimeoutChan, errCount, timeoutOccured, statusMap, outcome,
  \* Engine and its status channel
  statusChan, chanClosed, engSent,
  \* progress sink
  notifs,
  \* deleteKymaNamespaces: coordinator, workers, waiter goroutine, channels
  namespaces, retryAttempts, coordPc, nsIdx, attempt, wg, worker, waiterPc,
  errorChClosed, finishedChClosed, errWrapped,
  \* history of the run (observation only)
  hist

orchVars == <<pc, result, cfg, startTime, endTime, ctxCancelled>>
supVars == <<phase, supPc, cancelTimeout, quitTimeout, timerStart,
             cancelTimeoutChan, quitTimeoutChan, errCount, timeoutOccured,
             statusMap, outcome>>
engVars == <<statusChan, chanClosed, engSent>>
tdVars == <<namespaces, retryAttempts, coordPc, nsIdx, attempt, wg, worker, waiterPc,
            errorChClosed, finishedChClosed, errWrapped>>
vars == <<orchVars, now, supVars, engVars, notifs, tdVars, hist>>

\* -------------------------------------------------------------- helpers
Max(a, b) == IF a >= b THEN a ELSE b

\* core.processUpdate / core.processUpdateComponent: hand one update to the sink
processUpdate(log, ph, event) == Append(log, [phase |-> ph, event |-> event])
processUpdateComponent(log, ph, cmp) == Append(log, [phase |-> ph, event |-> ComponentUpdate])

\* calculateDuration(start, end, duration): the budget left after end - start
calculateDuration(start, end, duration) == Max(0, duration - (end - start))

\* if cmp.Status == components.StatusError { errCount++ }
\* variant: every status is counted as an error
CountErrorAll(cnt, cmp) == cnt + 1
CountError(cnt, cmp) == IF cmp.Status = StatusError THEN cnt + 1 ELSE cnt

\* the outcome chosen when the status channel is found closed
\* variant: the timeoutOccured test of line 149 is missing
ClosedOutcomeNoTimeout(cnt, timedOut) ==
  IF cnt > 0 THEN ErrComponents(cnt) ELSE Nil
\* variant: the timeoutOccured test comes before the errCount test
ClosedOutcomeTimeoutFirst(cnt, timedOut) ==
  IF timedOut THEN ErrTimeout
  ELSE IF cnt > 0 THEN ErrComponents(cnt)
  ELSE Nil
ClosedOutcome(cnt, timedOut) ==
  IF cnt > 0 THEN ErrComponents(cnt)
  ELSE IF timedOut THEN ErrTimeout
  ELSE Nil

ClosedEvent(err) ==
  CASE err.kind = "ComponentFailure" -> ProcessExecutionFailure
    [] err.kind = "TimeoutFailure" -> ProcessTimeoutFailure
    [] OTHER -> ProcessFinished

\* the update sent when the status channel is found closed: lines 145, 151, 168
\* variant: the ProcessFinished update of line 168 is missing
ClosedNotifyNoFinished(log, ph, err) ==
  IF err = Nil THEN log ELSE processUpdate(log, ph, ClosedEvent(err))
ClosedNotify(log, ph, err) == processUpdate(log, ph, ClosedEvent(err))

HistInit ==
  [ uninstallCalls |-> <<>>,          \* phases whose Engine.Uninstall was called
    phaseOutcome |-> [p \in Phases |-> NoResult],
    teardownCalled |-> FALSE,
    errYielded |-> 0,                 \* Error statuses the Engine put on the stream
    errReceived |-> 0,                \* Error statuses the select received
    cancelFiredBeforeClose |-> FALSE, \* at close(statusChan)
    quitFiredBeforeClose |-> FALSE,
    recvAfterQuitFired |-> FALSE,     \* a status was received with the quit timer fired
    quitTaken |-> FALSE,              \* the quit case of the select ran
    recvAfterQuitTaken |-> FALSE,
    deleteCalls |-> {},               \* namespaces whose Delete was called
    skipped |-> {},                   \* namespaces given up at the pre-check
    reported |-> {},                  \* errors a worker started to send
    sendOnClosed |-> FALSE,           \* a send started on the closed errorCh
    steps |-> <<>>,                   \* per worker: its fetches and Delete, in call order
    startedCancelled |-> {} ]         \* phases whose Uninstall got a cancelled context

\* ----------------------------------------------------------------- Init
InitCommon ==
  /\ result = NoResult
  /\ now = 0
  /\ startTime = 0
  /\ endTime = 0
  /\ ctxCancelled = FALSE
  /\ phase = UninstallComponents
  /\ supPc = "idle"
  /\ cancelTimeout = 0
  /\ quitTimeout = 0
  /\ timerStart = 0
  /\ cancelTimeoutChan = "pending"
  /\ quitTimeoutChan = "pending"
  /\ errCount = 0
  /\ timeoutOccured = FALSE
  /\ statusMap = [c \in ComponentNames |-> NoStatus]
  /\ outcome = NoResult
  /\ statusChan = <<>>
  /\ chanClosed = FALSE
  /\ engSent = 0
  /\ notifs = <<>>
  /\ retryAttempts \in 1..MaxAttempts
  /\ coordPc = "idle"
  /\ nsIdx = 1
  /\ attempt = 0
  /\ wg = 0
  /\ worker = <<>>
  /\ waiterPc = "none"
  /\ errorChClosed = FALSE
  /\ finishedChClosed = FALSE
  /\ errWrapped = <<>>
  /\ hist = HistInit

\* StartKymaUninstallation on a fresh Deletion
Init ==
  /\ InitCommon
  /\ \E q \in 2..MaxBudget : \E c \in 1..(q - 1) :
       cfg = [CancelTimeout |-> c, QuitTimeout |-> q]
  /\ pc = "start"
  /\ namespaces = <<>>

\* StartKymaUninstallation on a fresh Deletion configured with the budgets 1, 2
InitShortBudgets ==
  /\ InitCommon
  /\ cfg = [CancelTimeout |-> 1, QuitTimeout |-> 2]
  /\ pc = "start"
  /\ namespaces = <<>>

\* deleteKymaNamespaces called on a fresh Deletion
InitTeardown ==
  /\ InitCommon
  /\ cfg = [CancelTimeout |-> 1, QuitTimeout |-> 2]
  /\ pc = "teardown"
  /\ namespaces \in TeardownLists

\* the part of the history that describes one Supervisor invocation
FreshInvocation(h) ==
  [h EXCEPT !.errYielded = 0, !.errReceived = 0,
            !.cancelFiredBeforeClose = FALSE,
            !.quitFiredBeforeClose = FALSE,
            !.recvAfterQuitFired = FALSE,
            !.quitTaken = FALSE,
            !.recvAfterQuitTaken = FALSE]

\* -------------------------------------------------- uninstallComponents
\* Lines 117-129: the two time.After channels, the local state, eng.Uninstall
\* and, when the Engine started, the ProcessStart update.
EnterSupervisor(ph, ct, qt, startErr, h) ==
  /\ phase' = ph
  /\ cancelTimeout' = ct
  /\ quitTimeout' = qt
  /\ timerStart' = now
  /\ cancelTimeoutChan' = "pending"
  /\ quitTimeoutChan' = "pending"
  /\ statusMap' = [c \in ComponentNames |-> NoStatus]
  /\ errCount' = 0
  /\ timeoutOccured' = FALSE
  /\ statusChan' = <<>>
  /\ chanClosed' = FALSE
  /\ engSent' = 0
  /\ LET h1 == [FreshInvocation(h) EXCEPT
                   !.uninstallCalls = Append(@, ph),
                   !.startedCancelled = IF ctxCancelled THEN @ \cup {ph} ELSE @]
     IN IF startErr
        THEN /\ supPc' = "returned"
             /\ outcome' = ErrEngineStart
             /\ notifs' = notifs
             /\ hist' = [h1 EXCEPT !.phaseOutcome[ph] = ErrEngineStart]
        ELSE /\ supPc' = "loop"
             /\ outcome' = NoResult
             /\ notifs' = processUpdate(notifs, ph, ProcessStart)
             /\ hist' = h1

\* case cmp, ok := <-statusChan with ok: lines 136-141
SupReceive ==
  /\ supPc = "loop"
  /\ statusChan # <<>>
  /\ LET cmp == Head(statusChan) IN
       /\ notifs' = processUpdateComponent(notifs, phase, cmp)
       /\ errCount' = CountError(errCount, cmp)
       /\ statusMap' = [statusMap EXCEPT ![cmp.Name] = cmp.Status]
       /\ hist' = [hist EXCEPT
                     !.errReceived = IF cmp.Status = StatusError THEN @ + 1 ELSE @,
                     !.recvAfterQuitFired = @ \/ quitTimeoutChan = "fired",
                     !.recvAfterQuitTaken = @ \/ hist.quitTaken]
  /\ statusChan' = Tail(statusChan)
  /\ UNCHANGED <<tdVars, orchVars, now, phase, supPc, cancelTimeout, quitTimeout, timerStart,
                 cancelTimeoutChan, quitTimeoutChan, timeoutOccured, outcome,
                 chanClosed, engSent>>

\* case cmp, ok := <-statusChan with !ok: lines 142-156 and 168-169
SupStreamClosed ==
  /\ supPc = "loop"
  /\ statusChan = <<>>
  /\ chanClosed
  /\ LET err == ClosedOutcome(errCount, timeoutOccured) IN
       /\ outcome' = err
       /\ notifs' = ClosedNotify(notifs, phase, err)
       /\ hist' = [hist EXCEPT !.phaseOutcome[phase] = err]
  /\ supPc' = "returned"
  /\ UNCHANGED <<tdVars, orchVars, now, phase, cancelTimeout, quitTimeout, timerStart,
                 cancelTimeoutChan, quitTimeoutChan, errCount, timeoutOccured,
                 statusMap, engVars>>

\* case <-cancelTimeoutChan: lines 157-160
\* variant: the case sets the flag but does not call cancelFunc
SupCancelTimeoutNoCancel ==
  /\ supPc = "loop"
  /\ cancelTimeoutChan = "fired"
  /\ cancelTimeoutChan' = "consumed"
  /\ timeoutOccured' = TRUE
  /\ UNCHANGED <<tdVars, orchVars, now, phase, supPc,
                 cancelTimeout, quitTimeout, timerStart, quitTimeoutChan, errCount,
                 statusMap, outcome, engVars, notifs, hist>>
SupCancelTimeout ==
  /\ supPc = "loop"
  /\ cancelTimeoutChan = "fired"
  /\ cancelTimeoutChan' = "consumed"
  /\ timeoutOccured' = TRUE
  /\ ctxCancelled' = TRUE
  /\ UNCHANGED <<tdVars, pc, result, cfg, startTime, endTime, now, phase, supPc,
                 cancelTimeout, quitTimeout, timerStart, quitTimeoutChan, errCount,
                 statusMap, outcome, engVars, notifs, hist>>

\* case <-quitTimeoutChan: lines 161-165
\* variant: the quit case notifies but stays in the loop
SupQuitTimeoutNoReturn ==
  /\ supPc = "loop"
  /\ quitTimeoutChan = "fired"
  /\ quitTimeoutChan' = "consumed"
  /\ notifs' = processUpdate(notifs, phase, ProcessForceQuitFailure)
  /\ hist' = [hist EXCEPT !.quitTaken = TRUE]
  /\ UNCHANGED <<tdVars, orchVars, now, phase, supPc, cancelTimeout, quitTimeout, timerStart,
                 cancelTimeoutChan, errCount, timeoutOccured, statusMap, outcome,
                 engVars>>
SupQuitTimeout ==
  /\ supPc = "loop"
  /\ quitTimeoutChan = "fired"
  /\ quitTimeoutChan' = "consumed"
  /\ notifs' = processUpdate(notifs, phase, ProcessForceQuitFailure)
  /\ outcome' = ErrForceQuit
  /\ supPc' = "returned"
  /\ hist' = [hist EXCEPT !.quitTaken = TRUE, !.phaseOutcome[phase] = ErrForceQuit]
  /\ UNCHANGED <<tdVars, orchVars, now, phase, cancelTimeout, quitTimeout, timerStart,
                 cancelTimeoutChan, errCount, timeoutOccured, statusMap, engVars>>

\* ------------------------------------------------------- runtime timers
\* time.After(d): the runtime sends on the channel once d has elapsed, at the
\* deadline or later.  The cancel timer is created first (line 118) and its
\* budget is never the larger one, so the runtime fires it before the quit timer.
CancelTimerFires ==
  /\ supPc = "loop"
  /\ cancelTimeoutChan = "pending"
  /\ now >= timerStart + cancelTimeout
  /\ cancelTimeoutChan' = "fired"
  /\ UNCHANGED <<tdVars, orchVars, now, phase, supPc, cancelTimeout, quitTimeout, timerStart,
                 quitTimeoutChan, errCount, timeoutOccured, statusMap, outcome,
                 engVars, notifs, hist>>

QuitTimerFires ==
  /\ supPc = "loop"
  /\ quitTimeoutChan = "pending"
  /\ cancelTimeoutChan # "pending"
  /\ now >= timerStart + quitTimeout
  /\ quitTimeoutChan' = "fired"
  /\ UNCHANGED <<tdVars, orchVars, now, phase, supPc, cancelTimeout, quitTimeout, timerStart,
                 cancelTimeoutChan, errCount, timeoutOccured, statusMap, outcome,
                 engVars, notifs, hist>>

\* the wall clock advances while a Supervisor waits in its select
Tick ==
  /\ supPc = "loop"
  /\ now < MaxTime
  /\ now' = now + 1
  /\ UNCHANGED <<tdVars, orchVars, supVars, engVars, notifs, hist>>

\* ---------------------------------------------------------- Phase Engine
\* Engine.Uninstall's workers: each component of the list reports one status, in
\* list order; the channel is closed once, after any number of reports
EngineEmit ==
  /\ supPc = "loop"
  /\ ~chanClosed
  /\ engSent < MaxEvents
  /\ Len(statusChan) < StatusChanCap
  /\ \E st \in Statuses :
       /\ statusChan' = Append(statusChan, [Name |-> engSent + 1, Status |-> st])
       /\ hist' = [hist EXCEPT !.errYielded = IF st = StatusError THEN @ + 1 ELSE @]
  /\ engSent' = engSent + 1
  /\ UNCHANGED <<tdVars, orchVars, now, supVars, chanClosed, notifs>>

EngineClose ==
  /\ supPc = "loop"
  /\ ~chanClosed
  /\ chanClosed' = TRUE
  /\ hist' = [hist EXCEPT !.cancelFiredBeforeClose = cancelTimeoutChan # "pending",
                          !.quitFiredBeforeClose = quitTimeoutChan # "pending"]
  /\ UNCHANGED <<tdVars, orchVars, now, supVars, statusChan, engSent, notifs>>

\* uninstallComponents has returned to its caller: its locals, the timers and
\* the Engine of the phase are no longer part of the run's state
LeaveSupervisor ==
  /\ supPc' = "idle"
  /\ outcome' = NoResult
  /\ cancelTimeout' = 0
  /\ quitTimeout' = 0
  /\ timerStart' = 0
  /\ cancelTimeoutChan' = "pending"
  /\ quitTimeoutChan' = "pending"
  /\ errCount' = 0
  /\ timeoutOccured' = FALSE
  /\ statusMap' = [c \in ComponentNames |-> NoStatus]
  /\ statusChan' = <<>>
  /\ chanClosed' = FALSE
  /\ engSent' = 0
  /\ hist' = FreshInvocation(hist)
  /\ UNCHANGED <<phase, notifs>>

\* ---------------------------------------------- startKymaUninstallation
tdRest == <<retryAttempts, coordPc, nsIdx, attempt, wg, worker, waiterPc,
            errorChClosed, finishedChClosed, errWrapped>>

\* Lines 81-98, up to the first Supervisor's select
StartUninstallation ==
  /\ pc = "start"
  /\ \E nsErr \in BOOLEAN :
       IF nsErr
       THEN /\ pc' = "done"
            /\ result' = ErrMetadata
            /\ UNCHANGED <<cfg, startTime, endTime, ctxCancelled, now, supVars,
                           engVars, notifs, namespaces, hist>>
       ELSE /\ pc' = "components"
            /\ \E listed \in RunMetadataLists :
                 namespaces' = Append(listed, KymaInstaller)
            /\ startTime' = now
            /\ \E startErr \in BOOLEAN :
                 EnterSupervisor(UninstallComponents, cfg.CancelTimeout,
                                 cfg.QuitTimeout, startErr, hist)
            /\ UNCHANGED <<result, cfg, endTime, ctxCancelled, now>>
  /\ UNCHANGED tdRest

\* Lines 99-109, up to the second Supervisor's select
\* variant: the error check of lines 99-101 is missing
ComponentsReturnedIgnoreError ==
  /\ pc = "components"
  /\ supPc = "returned"
  /\ pc' = "prerequisites"
  /\ endTime' = now
  /\ LET ct == calculateDuration(startTime, now, cfg.CancelTimeout)
         qt == calculateDuration(startTime, now, cfg.QuitTimeout)
     IN \E startErr \in BOOLEAN :
          EnterSupervisor(UninstallPreRequisites, ct, qt, startErr, hist)
  /\ UNCHANGED <<tdVars, result, cfg, startTime, ctxCancelled, now>>
\* variant: the second Supervisor gets the configured budgets
ComponentsReturnedFullBudget ==
  /\ pc = "components"
  /\ supPc = "returned"
  /\ IF outcome # Nil
     THEN /\ pc' = "done"
          /\ result' = outcome
          /\ LeaveSupervisor
          /\ UNCHANGED <<cfg, startTime, endTime, ctxCancelled, now>>
     ELSE /\ pc' = "prerequisites"
          /\ endTime' = now
          /\ LET ct == cfg.CancelTimeout
                 qt == cfg.QuitTimeout
             IN \E startErr \in BOOLEAN :
                  EnterSupervisor(UninstallPreRequisites, ct, qt, startErr, hist)
          /\ UNCHANGED <<result, cfg, startTime, ctxCancelled, now>>
  /\ UNCHANGED tdVars
ComponentsReturned ==
  /\ pc = "components"
  /\ supPc = "returned"
  /\ IF outcome # Nil
     THEN /\ pc' = "done"
          /\ result' = outcome
          /\ LeaveSupervisor
          /\ UNCHANGED <<cfg, startTime, endTime, ctxCancelled, now>>
     ELSE /\ pc' = "prerequisites"
          /\ endTime' = now
          /\ LET ct == calculateDuration(startTime, now, cfg.CancelTimeout)
                 qt == calculateDuration(startTime, now, cfg.QuitTimeout)
             IN \E startErr \in BOOLEAN :
                  EnterSupervisor(UninstallPreRequisites, ct, qt, startErr, hist)
          /\ UNCHANGED <<result, cfg, startTime, ctxCancelled, now>>
  /\ UNCHANGED tdVars

\* Lines 110-113
PrerequisitesReturned ==
  /\ pc = "prerequisites"
  /\ supPc = "returned"
  /\ IF outcome # Nil
     THEN pc' = "done" /\ result' = outcome
     ELSE pc' = "teardown" /\ result' = result
  /\ LeaveSupervisor
  /\ UNCHANGED <<tdVars, cfg, startTime, endTime, ctxCancelled, now>>

\* ------------------------------------------------- deleteKymaNamespaces
IsNotFound(err) == err = NotFound

\* whether a worker sends the error of a cluster call on errorCh:
\* lines 209, 215, 223, 229, 256, 262 (err != nil) and
\* lines 237, 269 (err != nil && !apierr.IsNotFound(err))
Reports(op, err) ==
  IF op \in {"SecretGet", "Delete"}
  THEN err # NoErr /\ ~IsNotFound(err)
  ELSE err # NoErr

\* the message of one cluster error
ErrToken(ns, op, item, err) == [ns |-> ns, op |-> op, item |-> item, kind |-> err]
NoToken == ErrToken("-", "-", 0, NoErr)

ListOps == {"CSBList", "SBList", "RulesList"}

\* a List call that failed may hand back a nil list pointer
NilList == 0 - 1

\* what a cluster call can return: the error and the number of objects fetched
\* (for a List: NilList when the returned list pointer is nil, which only
\* happens together with an error; for SecretGet: 1 when the returned *Secret
\* is not nil)
CallResults(op, items) ==
  CASE op \in ListOps ->
         {[err |-> NoErr, items |-> n] : n \in 0..MaxItems}
           \cup {[err |-> e, items |-> n] : e \in {NotFound, OtherErr}, n \in {NilList, 0}}
    [] op = "SecretGet" ->
         {[err |-> NoErr, items |-> 1]}
           \cup {[err |-> e, items |-> n] : e \in {NotFound, OtherErr}, n \in {0, 1}}
    [] op \in UpdateOps ->
         {[err |-> e, items |-> items - 1] : e \in {NoErr, OtherErr}}
    [] OTHER ->
         {[err |-> e, items |-> 0] : e \in {NoErr, NotFound, OtherErr}}

\* the operation a worker turns to after op returned r; ranging over the Items
\* of a nil list (lines 212, 226, 259) is a nil pointer dereference
NextOp(op, r) ==
  IF op \in ListOps /\ r.items = NilList
  THEN "panic"
  ELSE IF op \in FetchOps
  THEN IF r.items > 0 THEN UpdateOp[op] ELSE FollowOp[op]
  ELSE IF op \in UpdateOps /\ r.items > 0 THEN op ELSE FollowOp[op]

\* a worker goroutine panicked, after its send of the List error was received:
\* nothing recovers the panic and the process ends
Crashed ==
  \E i \in DOMAIN worker : worker[i].pc = "panic" /\ worker[i].sending = NoToken

\* if ns == "kyma-system" { ... } : line 206
FirstOp(ns) == IF ns = KymaSystem THEN "CSBList" ELSE "Delete"

\* errors.Wrap(err, errWrapped.Error()): the message of errWrapped, then err's
\* variant: the earlier errors' message is dropped
WrapDropsEarlier(err, message) == <<err>>
Wrap(err, message) == Append(message, err)

\* lines 290-296
Aggregate(wrapped, err) ==
  IF wrapped = <<>> THEN <<err>> ELSE Wrap(err, wrapped)

\* the for loop moves on to namespace idx, or past the loop: lines 276-285
ContinueLoop(idx) ==
  /\ nsIdx' = idx
  /\ attempt' = 0
  /\ IF idx > Len(namespaces)
     THEN coordPc' = "aggregate" /\ waiterPc' = "wait"
     ELSE coordPc' = "precheck" /\ waiterPc' = waiterPc

\* Lines 114 and 172-177
DeleteKymaNamespacesEnter ==
  /\ pc = "teardown"
  /\ coordPc = "idle"
  /\ wg' = Len(namespaces)
  /\ worker' = [i \in 1..Len(namespaces) |-> [pc |-> "none", items |-> 0, sending |-> NoToken]]
  /\ errWrapped' = <<>>
  /\ ContinueLoop(1)
  /\ hist' = [hist EXCEPT !.teardownCalled = TRUE,
                          !.steps = [i \in 1..Len(namespaces) |-> <<>>]]
  /\ UNCHANGED <<orchVars, now, supVars, engVars, notifs, namespaces, retryAttempts,
                 errorChClosed, finishedChClosed>>

\* One attempt of the retried function and what follows it: lines 181-204.
\*   "listErr": the pod List failed, the coordinator sends on errorCh (line 185)
\*   "running": a Running pod was found, the attempt fails
\*   "clean"  : no Running pod, the worker goroutine is started
\* variant: the worker is started although the retries were exhausted
PrecheckSpawnsAnyway ==
  /\ coordPc = "precheck"
  /\ ~Crashed
  /\ \E found \in {"clean", "running", "listErr"} :
       CASE found = "listErr" ->
              /\ coordPc' = "sendListErr"
              /\ UNCHANGED <<nsIdx, attempt, wg, worker, waiterPc, hist>>
         [] found = "running" /\ attempt + 1 < retryAttempts ->
              /\ attempt' = attempt + 1
              /\ UNCHANGED <<coordPc, nsIdx, wg, worker, waiterPc, hist>>
         [] found = "running" /\ attempt + 1 >= retryAttempts ->
              /\ worker' = [worker EXCEPT ![nsIdx].pc = FirstOp(namespaces[nsIdx])]
              /\ wg' = wg
              /\ hist' = [hist EXCEPT !.skipped = @ \cup {nsIdx}]
              /\ ContinueLoop(nsIdx + 1)
         [] OTHER ->
              /\ worker' = [worker EXCEPT ![nsIdx].pc = FirstOp(namespaces[nsIdx])]
              /\ ContinueLoop(nsIdx + 1)
              /\ UNCHANGED <<wg, hist>>
  /\ UNCHANGED <<orchVars, now, supVars, engVars, notifs, namespaces, retryAttempts,
                 errorChClosed, finishedChClosed, errWrapped>>
\* variant: the continue of line 201 is missing, the worker of a given-up
\* namespace is started after wg.Done()
PrecheckMissingContinue ==
  /\ coordPc = "precheck"
  /\ ~Crashed
  /\ \E found \in {"clean", "running", "listErr"} :
       CASE found = "listErr" ->
              /\ coordPc' = "sendListErr"
              /\ UNCHANGED <<nsIdx, attempt, wg, worker, waiterPc, hist>>
         [] found = "running" /\ attempt + 1 < retryAttempts ->
              /\ attempt' = attempt + 1
              /\ UNCHANGED <<coordPc, nsIdx, wg, worker, waiterPc, hist>>
         [] found = "running" /\ attempt + 1 >= retryAttempts ->
              /\ worker' = [worker EXCEPT ![nsIdx].pc = FirstOp(namespaces[nsIdx])]
              /\ wg' = wg - 1
              /\ hist' = [hist EXCEPT !.skipped = @ \cup {nsIdx}]
              /\ ContinueLoop(nsIdx + 1)
         [] OTHER ->
              /\ worker' = [worker EXCEPT ![nsIdx].pc = FirstOp(namespaces[nsIdx])]
              /\ ContinueLoop(nsIdx + 1)
              /\ UNCHANGED <<wg, hist>>
  /\ UNCHANGED <<orchVars, now, supVars, engVars, notifs, namespaces, retryAttempts,
                 errorChClosed, finishedChClosed, errWrapped>>
Precheck ==
  /\ coordPc = "precheck"
  /\ ~Crashed
  /\ \E found \in {"clean", "running", "listErr"} :
       CASE found = "listErr" ->
              /\ coordPc' = "sendListErr"
              /\ UNCHANGED <<nsIdx, attempt, wg, worker, waiterPc, hist>>
         [] found = "running" /\ attempt + 1 < retryAttempts ->
              /\ attempt' = attempt + 1
              /\ UNCHANGED <<coordPc, nsIdx, wg, worker, waiterPc, hist>>
         [] found = "running" /\ attempt + 1 >= retryAttempts ->
              /\ worker' = [worker EXCEPT ![nsIdx].pc = "skipped"]
              /\ wg' = wg - 1
              /\ hist' = [hist EXCEPT !.skipped = @ \cup {nsIdx}]
              /\ ContinueLoop(nsIdx + 1)
         [] OTHER ->
              /\ worker' = [worker EXCEPT ![nsIdx].pc = FirstOp(namespaces[nsIdx])]
              /\ ContinueLoop(nsIdx + 1)
              /\ UNCHANGED <<wg, hist>>
  /\ UNCHANGED <<orchVars, now, supVars, engVars, notifs, namespaces, retryAttempts,
                 errorChClosed, finishedChClosed, errWrapped>>

\* A worker goroutine performs its next cluster call: lines 206-271.  When the
\* call's error is to be reported the worker blocks in the send on errorCh.
WorkerCall(i) ==
  /\ ~Crashed
  /\ worker[i].pc \in Ops
  /\ worker[i].sending = NoToken
  /\ LET op == worker[i].pc
         ns == namespaces[i]
     IN \E r \in CallResults(op, worker[i].items) :
          LET tok == IF Reports(op, r.err)
                     THEN ErrToken(ns, op, worker[i].items, r.err)
                     ELSE NoToken
          IN /\ worker' = [worker EXCEPT ![i] =
                             [pc |-> NextOp(op, r), items |-> r.items, sending |-> tok]]
             /\ hist' = [hist EXCEPT
                           !.deleteCalls = IF op = "Delete" THEN @ \cup {i} ELSE @,
                           !.reported = IF tok # NoToken THEN @ \cup {tok} ELSE @,
                           !.sendOnClosed = @ \/ (tok # NoToken /\ errorChClosed),
                           !.steps[i] = IF op \in UpdateOps THEN @ ELSE Append(@, op)]
  /\ UNCHANGED <<orchVars, now, supVars, engVars, notifs, namespaces, retryAttempts,
                 coordPc, nsIdx, attempt, wg, waiterPc, errorChClosed,
                 finishedChClosed, errWrapped>>

\* defer wg.Done(): line 205
WorkerDone(i) ==
  /\ ~Crashed
  /\ worker[i].pc = "exit"
  /\ worker[i].sending = NoToken
  /\ worker' = [worker EXCEPT ![i].pc = "done"]
  /\ wg' = wg - 1
  /\ UNCHANGED <<orchVars, now, supVars, engVars, notifs, namespaces, retryAttempts,
                 coordPc, nsIdx, attempt, waiterPc, errorChClosed, finishedChClosed,
                 errWrapped, hist>>

\* wg.Wait(); close(errorCh): lines 278-279
\* variant: the waiter closes errorCh without wg.Wait()
WaiterCloseErrorChNoWait ==
  /\ ~Crashed
  /\ waiterPc = "wait"
  /\ errorChClosed' = TRUE
  /\ waiterPc' = "closeFinished"
  /\ UNCHANGED <<orchVars, now, supVars, engVars, notifs, namespaces, retryAttempts,
                 coordPc, nsIdx, attempt, wg, worker, finishedChClosed, errWrapped, hist>>
WaiterCloseErrorCh ==
  /\ ~Crashed
  /\ waiterPc = "wait"
  /\ wg = 0
  /\ errorChClosed' = TRUE
  /\ waiterPc' = "closeFinished"
  /\ UNCHANGED <<orchVars, now, supVars, engVars, notifs, namespaces, retryAttempts,
                 coordPc, nsIdx, attempt, wg, worker, finishedChClosed, errWrapped, hist>>

\* close(finishedCh): line 280
WaiterCloseFinishedCh ==
  /\ ~Crashed
  /\ waiterPc = "closeFinished"
  /\ finishedChClosed' = TRUE
  /\ waiterPc' = "done"
  /\ UNCHANGED <<orchVars, now, supVars, engVars, notifs, namespaces, retryAttempts,
                 coordPc, nsIdx, attempt, wg, worker, errorChClosed, errWrapped, hist>>

\* case err := <-errorCh, meeting the send of worker i: lines 289-296
AggReceive(i) ==
  /\ ~Crashed
  /\ coordPc = "aggregate"
  /\ worker[i].sending # NoToken
  /\ errWrapped' = Aggregate(errWrapped, worker[i].sending)
  /\ worker' = [worker EXCEPT ![i].sending = NoToken]
  /\ UNCHANGED <<orchVars, now, supVars, engVars, notifs, namespaces, retryAttempts,
                 coordPc, nsIdx, attempt, wg, waiterPc, errorChClosed,
                 finishedChClosed, hist>>

\* case err := <-errorCh on the closed channel: err is nil and is ignored
AggReceiveClosed ==
  /\ ~Crashed
  /\ coordPc = "aggregate"
  /\ errorChClosed
  /\ UNCHANGED vars

\* case <-finishedCh: return errWrapped (line 288), which line 114 returns
AggFinished ==
  /\ ~Crashed
  /\ coordPc = "aggregate"
  /\ finishedChClosed
  /\ coordPc' = "returned"
  /\ result' = IF errWrapped = <<>> THEN Nil ELSE ErrTeardown(errWrapped)
  /\ pc' = "done"
  /\ UNCHANGED <<cfg, startTime, endTime, ctxCancelled, now, supVars, engVars, notifs,
                 namespaces, retryAttempts, nsIdx, attempt, wg, worker, waiterPc,
                 errorChClosed, finishedChClosed, errWrapped, hist>>

\* the goroutines started so far are those of the namespaces of the call
Workers == DOMAIN worker

NextTeardown ==
  \/ DeleteKymaNamespacesEnter
  \/ Precheck
  \/ \E i \in Workers : WorkerCall(i)
  \/ \E i \in Workers : WorkerDone(i)
  \/ WaiterCloseErrorCh
  \/ WaiterCloseFinishedCh
  \/ \E i \in Workers : AggReceive(i)
  \/ AggReceiveClosed
  \/ AggFinished

NextSupervisor ==
  \/ SupReceive
  \/ SupStreamClosed
  \/ SupCancelTimeout
  \/ SupQuitTimeout
  \/ CancelTimerFires
  \/ QuitTimerFires
  \/ Tick
  \/ EngineEmit
  \/ EngineClose

Next ==
  \/ StartUninstallation
  \/ ComponentsReturned
  \/ PrerequisitesReturned
  \/ NextSupervisor
  \/ NextTeardown

\* a whole run of StartKymaUninstallation
Spec == Init /\ [][Next]_vars

\* the two phases of a run, up to the call of deleteKymaNamespaces
NextPhases ==
  \/ StartUninstallation
  \/ ComponentsReturned
  \/ PrerequisitesReturned
  \/ NextSupervisor

\* the Go runtime at work: the wall clock advances and a timer that is due fires
RuntimeStep ==
  \/ Tick
  \/ CancelTimerFires
  \/ QuitTimerFires

\* the two phases of a run in which the runtime keeps going and the select
\* does not leave the ready hard-quit case aside forever; nothing is assumed
\* of the Engine
SpecFair ==
  /\ InitShortBudgets /\ [][NextPhases]_vars
  /\ WF_vars(RuntimeStep)
  /\ WF_vars(SupQuitTimeout)

\* deleteKymaNamespaces on its own
SpecTeardown == InitTeardown /\ [][NextTeardown]_vars

\* ===================================================================
\* Properties
\* ===================================================================
Range(seq) == {seq[i] : i \in DOMAIN seq}
IsError(err) == err.kind \notin {"none", "nil"}

\* the updates the sink got for one phase, in order
PhaseNotifs(ph) == SelectSeq(notifs, LAMBDA u : u.phase = ph)
CountEvents(seq, events) == Cardinality({i \in DOMAIN seq : seq[i].event \in events})
LastEvent(seq) == IF seq = <<>> THEN "-" ELSE seq[Len(seq)].event

\* the Supervisor stands at a return statement of uninstallComponents
Returned == supPc = "returned"

\* C1: when the Components Supervisor returns an error the Prerequisites Engine
\* is never started, deleteKymaNamespaces is never called and the run returns
\* that error; when the Prerequisites Supervisor returns an error
\* deleteKymaNamespaces is never called.
C1_AbortOnPhaseError ==
  /\ IsError(hist.phaseOutcome[UninstallComponents]) =>
       /\ UninstallPreRequisites \notin Range(hist.uninstallCalls)
       /\ ~hist.teardownCalled
       /\ pc \in {"components", "done"}
       /\ pc = "done" => result = hist.phaseOutcome[UninstallComponents]
  /\ IsError(hist.phaseOutcome[UninstallPreRequisites]) =>
       /\ ~hist.teardownCalled
       /\ pc \in {"prerequisites", "done"}
       /\ pc = "done" => result = hist.phaseOutcome[UninstallPreRequisites]

\* a run that ended with the Components phase's ComponentFailure
C1_Witness ==
  /\ pc = "done"
  /\ result.kind = "ComponentFailure"
  /\ hist.phaseOutcome[UninstallComponents] = result
  /\ hist.uninstallCalls = <<UninstallComponents>>

\* C2 as stated: whenever the stream yielded an Error status the outcome is
\* ComponentFailure with the number of Error statuses observed.
C2_Original ==
  (Returned /\ hist.errYielded >= 1) =>
    /\ outcome.kind = "ComponentFailure"
    /\ outcome.n = hist.errReceived

\* C2 amended: when the stream yielded an Error status, either the select took
\* the hard-quit case first and the outcome is ForceQuitFailure, or the outcome
\* is ComponentFailure, its count is the number of Error statuses received and
\* every Error status yielded was received.
C2_ErrorCount ==
  (Returned /\ hist.errYielded >= 1) =>
    \/ outcome = ErrForceQuit /\ hist.quitTaken
    \/ /\ outcome.kind = "ComponentFailure"
       /\ outcome.n = hist.errReceived
       /\ hist.errReceived = hist.errYielded
       /\ LastEvent(PhaseNotifs(phase)) = ProcessExecutionFailure

\* one Error among Success statuses, reported as one failed component
C2_Witness ==
  /\ Returned
  /\ outcome = ErrComponents(1)
  /\ \E c \in ComponentNames : statusMap[c] = StatusSuccess
  /\ \E c \in ComponentNames : statusMap[c] = StatusError

\* C3 as stated: the soft-cancel timer fired before the stream closed and the
\* stream yielded no Error status, so the outcome is TimeoutFailure.
C3_Original ==
  (Returned /\ chanClosed /\ hist.cancelFiredBeforeClose /\ hist.errYielded = 0) =>
    outcome = ErrTimeout

\* C3 amended: when the select took the soft-cancel case before it found the
\* stream closed, and no Error status was received, the outcome of finding the
\* stream closed is TimeoutFailure, never Finished; a nil outcome means the
\* soft-cancel case never ran.
C3_TimeoutDominates ==
  /\ (Returned /\ timeoutOccured /\ hist.errReceived = 0 /\ ~hist.quitTaken) =>
       /\ outcome = ErrTimeout
       /\ LastEvent(PhaseNotifs(phase)) = ProcessTimeoutFailure
  /\ (Returned /\ outcome = Nil) => ~timeoutOccured

\* the soft-cancel case ran, then the stream was found closed without errors
C3_Witness ==
  /\ Returned
  /\ outcome = ErrTimeout
  /\ timeoutOccured
  /\ ctxCancelled
  /\ chanClosed

\* C4 as stated: once the hard-quit timer has fired with the stream still open,
\* no status is received any more and the outcome is ForceQuitFailure.
C4_Original ==
  (quitTimeoutChan # "pending" /\ (~chanClosed \/ hist.quitFiredBeforeClose)) =>
    /\ ~hist.recvAfterQuitFired
    /\ Returned => outcome = ErrForceQuit

\* C4 amended: once the select has taken the hard-quit case the Supervisor has
\* returned ForceQuitFailure, its last update is ProcessForceQuitFailure and no
\* status was received after that case.
C4_ForceQuitReturns ==
  hist.quitTaken =>
    /\ Returned
    /\ outcome = ErrForceQuit
    /\ ~hist.recvAfterQuitTaken
    /\ LastEvent(PhaseNotifs(phase)) = ProcessForceQuitFailure

\* the hard-quit case ran with a status still waiting on the open stream
C4_Witness ==
  /\ hist.quitTaken
  /\ ~chanClosed
  /\ statusChan # <<>>

\* C5 as stated: no Error status yielded and the stream closed before either
\* timer fired, so the outcome is Finished with one Start and one Finished.
C5_Original ==
  (/\ Returned
   /\ chanClosed
   /\ hist.errYielded = 0
   /\ ~hist.cancelFiredBeforeClose
   /\ ~hist.quitFiredBeforeClose) =>
    /\ outcome = Nil
    /\ CountEvents(PhaseNotifs(phase), {ProcessStart}) = 1
    /\ CountEvents(PhaseNotifs(phase), {ProcessFinished}) = 1
    /\ CountEvents(PhaseNotifs(phase), FailureEvents) = 0

\* C5 amended: when the select found the stream closed before it took either
\* timer case and no Error status was received, the outcome is Finished and the
\* phase got exactly one Start, exactly one Finished and no failure update.
C5_CleanFinish ==
  (/\ Returned
   /\ chanClosed /\ statusChan = <<>>
   /\ hist.errReceived = 0
   /\ ~timeoutOccured
   /\ ~hist.quitTaken) =>
    /\ outcome = Nil
    /\ CountEvents(PhaseNotifs(phase), {ProcessStart}) = 1
    /\ CountEvents(PhaseNotifs(phase), {ProcessFinished}) = 1
    /\ CountEvents(PhaseNotifs(phase), FailureEvents) = 0
    /\ LastEvent(PhaseNotifs(phase)) = ProcessFinished

\* a clean finish after two Success statuses, both timers still pending
C5_Witness ==
  /\ Returned
  /\ outcome = Nil
  /\ \A c \in ComponentNames : statusMap[c] = StatusSuccess
  /\ cancelTimeoutChan = "pending"
  /\ quitTimeoutChan = "pending"

\* C6 as stated: every return of the Supervisor, the Engine start error
\* included, comes with exactly one Start update, which is the first of the
\* invocation, and exactly one terminal update, which is the last.
C6_Original ==
  Returned =>
    LET ups == PhaseNotifs(phase) IN
      /\ IsError(outcome) \/ outcome = Nil
      /\ Len(ups) >= 2
      /\ ups[1].event = ProcessStart
      /\ LastEvent(ups) \in TerminalEvents
      /\ CountEvents(ups, {ProcessStart}) = 1
      /\ CountEvents(ups, TerminalEvents) = 1

\* C7: the budgets of the Prerequisites Supervisor are max(0, budget - elapsed),
\* never negative, and 0 when the Components phase took longer than the budget.
C7_AdjustedBudgets ==
  pc = "prerequisites" /\ supPc # "idle" =>
    LET elapsed == endTime - startTime IN
      /\ elapsed >= 0
      /\ cancelTimeout = IF cfg.CancelTimeout > elapsed
                         THEN cfg.CancelTimeout - elapsed ELSE 0
      /\ quitTimeout = IF cfg.QuitTimeout > elapsed
                       THEN cfg.QuitTimeout - elapsed ELSE 0
      /\ cancelTimeout >= 0
      /\ quitTimeout >= 0

\* the Components phase took longer than the cancel budget
C7_Witness ==
  /\ pc = "prerequisites"
  /\ supPc = "loop"
  /\ endTime - startTime > cfg.CancelTimeout
  /\ cancelTimeout = 0

\* C8: the result of deleteKymaNamespaces is non-nil exactly when a worker
\* reported an error, and its message holds every reported error, once.
C8_Aggregation ==
  coordPc = "returned" =>
    /\ (result # Nil) <=> (hist.reported # {})
    /\ \A tok \in hist.reported : tok \in Range(result.msg)
    /\ Len(result.msg) = Cardinality(hist.reported)

\* A is deleted, B and C fail: the result holds both messages
C8_Witness ==
  /\ coordPc = "returned"
  /\ Len(namespaces) = 3
  /\ hist.deleteCalls = {1, 2, 3}
  /\ {tok.ns : tok \in Range(result.msg)} = {namespaces[2], namespaces[3]}

\* C9: a namespace whose pre-check found a Running pod in every attempt is
\* skipped: no Delete call, no error for it; when the call returns every other
\* namespace had its Delete call, and the result is nil if none reported.
C9_SkippedNamespace ==
  /\ \A i \in hist.skipped :
       /\ i \notin hist.deleteCalls
       /\ worker[i].pc = "skipped"
       /\ \A tok \in hist.reported : tok.ns # namespaces[i]
  /\ coordPc = "returned" =>
       /\ \A i \in DOMAIN worker : i \in hist.skipped \/ i \in hist.deleteCalls
       /\ hist.reported = {} => result = Nil

\* three namespaces, the second skipped after all attempts, the others deleted
C9_Witness ==
  /\ coordPc = "returned"
  /\ Len(namespaces) = 3
  /\ retryAttempts = MaxAttempts
  /\ hist.skipped = {2}
  /\ hist.deleteCalls = {1, 3}
  /\ result = Nil

\* C10 as stated: a not-found error of the namespace Delete or of the first
\* fetch of a finalizer-clearing step is never sent on errorCh and never part
\* of the result.
C10_Original ==
  \A tok \in hist.reported \cup Range(errWrapped) :
    ~(tok.kind = NotFound /\ tok.op \in FetchOps \cup {"Delete"})

\* the goroutines of the call that have not finished: a started worker before
\* its deferred wg.Done(), a namespace not yet pre-checked
Unfinished == {i \in DOMAIN worker : worker[i].pc \notin {"done", "skipped"}}

\* C11: the WaitGroup counter is never negative and counts the namespaces whose
\* worker has not finished; when deleteKymaNamespaces has returned the counter
\* is 0, every worker has run its wg.Done() or was skipped, none is blocked in
\* a send, and the waiter goroutine has closed both channels and ended.
C11_AllWorkersFinished ==
  /\ wg >= 0
  /\ coordPc # "idle" => wg = Cardinality(Unfinished)
  /\ coordPc = "returned" =>
       /\ wg = 0
       /\ \A i \in DOMAIN worker :
            worker[i].pc \in {"done", "skipped"} /\ worker[i].sending = NoToken
       /\ waiterPc = "done"
       /\ errorChClosed /\ finishedChClosed

\* the call returned after one namespace was skipped and two workers, one of
\* them reporting an error, ran to their wg.Done()
C11_Witness ==
  /\ coordPc = "returned"
  /\ wg = 0
  /\ Len(namespaces) = 3
  /\ Cardinality(hist.skipped) = 1
  /\ Cardinality({i \in DOMAIN worker : worker[i].pc = "done"}) = 2
  /\ hist.reported # {}

\* C12: the Prerequisites Engine's Uninstall is called only as the second
\* Uninstall of the run, from the return of the Components Supervisor with a
\* nil outcome, and at that step the Components Engine's status channel is
\* closed and drained.
C12_PhasesNeverOverlap ==
  [][(/\ hist'.uninstallCalls # hist.uninstallCalls
      /\ hist'.uninstallCalls[Len(hist'.uninstallCalls)] = UninstallPreRequisites) =>
       /\ hist.uninstallCalls = <<UninstallComponents>>
       /\ hist'.uninstallCalls = <<UninstallComponents, UninstallPreRequisites>>
       /\ phase = UninstallComponents
       /\ supPc = "returned"
       /\ outcome = Nil
       /\ hist.phaseOutcome[UninstallComponents] = Nil
       /\ chanClosed
       /\ statusChan = <<>>]_vars

\* the Prerequisites Engine reports while the Components phase is over
C12_Witness ==
  /\ pc = "prerequisites"
  /\ supPc = "loop"
  /\ hist.uninstallCalls = <<UninstallComponents, UninstallPreRequisites>>
  /\ hist.phaseOutcome[UninstallComponents] = Nil
  /\ statusChan # <<>>

\* the steps of the goroutine that called deleteKymaNamespaces
CoordinatorStep ==
  \/ Precheck
  \/ \E i \in Workers : AggReceive(i)
  \/ AggReceiveClosed
  \/ AggFinished

\* C13 as stated: when the pod List of a namespace's pre-check fails no worker
\* is started for the namespace, the failure is no part of the result, and the
\* coordinator goes on: it is not blocked.
C13_Original ==
  coordPc = "sendListErr" =>
    /\ worker[nsIdx].pc = "none"
    /\ errWrapped = <<>>
    /\ ENABLED CoordinatorStep

IsPrefix(s, t) == Len(s) <= Len(t) /\ \A k \in DOMAIN s : s[k] = t[k]

\* the clearing steps of the kyma-system worker and its Delete, in source order
ClearingOrder == <<"CSBList", "SBList", "SecretGet", "RulesList", "Delete">>

\* the goroutine of worker i has ended: by its return or by a panic
Stopped(i) ==
  /\ worker[i].pc \in {"exit", "done", "panic"}
  /\ worker[i].sending = NoToken

\* C14 as stated: the kyma-system worker makes its fetches in the order
\* ClusterServiceBrokers, ServiceBrokers, Secret, Rules and calls Delete after
\* them; whatever errors the fetches and updates returned, a worker that has
\* ended has made every one of the five calls.
C14_Original ==
  \A i \in DOMAIN worker :
    namespaces[i] = KymaSystem =>
      /\ IsPrefix(hist.steps[i], ClearingOrder)
      /\ Stopped(i) => hist.steps[i] = ClearingOrder

\* C15 as stated: a ForceQuitFailure outcome is returned only after the
\* soft-cancel case ran in the same invocation: the timed-out flag is set and
\* cancellation was invoked on the shared context.
C15_Original ==
  (Returned /\ outcome = ErrForceQuit) => (timeoutOccured /\ ctxCancelled)

\* C15 amended: a ForceQuitFailure outcome is returned only by the hard-quit
\* case, after both timers have fired; the soft-cancel case ran before it
\* exactly when its channel was consumed, and then the flag is set and the
\* context cancelled; otherwise neither happened in this invocation.
C15_QuitAfterBothFired ==
  (Returned /\ outcome = ErrForceQuit) =>
    /\ hist.quitTaken
    /\ quitTimeoutChan = "consumed"
    /\ cancelTimeoutChan # "pending"
    /\ now >= timerStart + quitTimeout
    /\ timeoutOccured <=> cancelTimeoutChan = "consumed"
    /\ ctxCancelled <=> timeoutOccured

\* the Prerequisites Supervisor, run with both budgets 0, returned
\* ForceQuitFailure and its soft-cancel case never ran
C15_Witness ==
  /\ Returned
  /\ phase = UninstallPreRequisites
  /\ cancelTimeout = 0 /\ quitTimeout = 0
  /\ outcome = ErrForceQuit
  /\ ~timeoutOccured
  /\ ~ctxCancelled

\* the Supervisor returned from the branch that found the status channel closed
ReturnedAtClose ==
  Returned /\ ~hist.quitTaken /\ outcome # ErrEngineStart

\* C16 as stated: when the select found the stream closed the outcome is
\* ComponentFailure if the error counter is positive, otherwise TimeoutFailure
\* if the soft-cancel timer had fired when the stream closed, otherwise
\* Finished.
C16_Original ==
  ReturnedAtClose =>
    outcome = IF errCount > 0 THEN ErrComponents(errCount)
              ELSE IF hist.cancelFiredBeforeClose THEN ErrTimeout
              ELSE Nil

\* C16 amended: when the select found the stream closed the outcome is
\* ComponentFailure if an Error status was received, otherwise TimeoutFailure
\* if the select had taken the soft-cancel case, otherwise Finished; the only
\* terminal update is that of the outcome, so with both an Error status
\* received and the soft-cancel case taken it is the execution failure.
C16_ClosePriority ==
  ReturnedAtClose =>
    LET ups == PhaseNotifs(phase) IN
      /\ chanClosed /\ statusChan = <<>>
      /\ errCount = hist.errReceived
      /\ outcome = IF hist.errReceived > 0 THEN ErrComponents(hist.errReceived)
                   ELSE IF timeoutOccured THEN ErrTimeout
                   ELSE Nil
      /\ CountEvents(ups, TerminalEvents) = 1
      /\ LastEvent(ups) = ClosedEvent(outcome)
      /\ (hist.errReceived > 0 /\ timeoutOccured) =>
           LastEvent(ups) = ProcessExecutionFailure

\* an Error status was received and the soft-cancel case ran before the close
\* was found: the outcome is the component failure
C16_Witness ==
  /\ Returned
  /\ chanClosed
  /\ timeoutOccured
  /\ hist.errReceived = 1
  /\ outcome = ErrComponents(1)
  /\ LastEvent(PhaseNotifs(phase)) = ProcessExecutionFailure

\* C17 as stated: deleteKymaNamespaces is deadlock-free: as long as the call
\* has not returned (and no goroutine panicked) some goroutine of the call can
\* take a step.
C17_Original ==
  \/ coordPc = "returned"
  \/ Crashed
  \/ ENABLED NextTeardown

\* C18: no Engine's Uninstall is called with the shared context cancelled; a
\* Components Supervisor that returns nil did not run its soft-cancel case and
\* the context is not cancelled; the context of a running Prerequisites
\* Supervisor is cancelled only by that Supervisor's own soft-cancel case.
C18_FreshContext ==
  /\ hist.startedCancelled = {}
  /\ (Returned /\ phase = UninstallComponents /\ outcome = Nil) =>
       (~timeoutOccured /\ ~ctxCancelled)
  /\ (pc = "prerequisites" /\ supPc = "loop") => (ctxCancelled <=> timeoutOccured)

\* the Prerequisites Supervisor runs with the context not cancelled although
\* the Components phase took as long as the soft-cancel budget
C18_Witness ==
  /\ pc = "prerequisites"
  /\ supPc = "loop"
  /\ hist.phaseOutcome[UninstallComponents] = Nil
  /\ endTime - startTime >= cfg.CancelTimeout
  /\ ~ctxCancelled
  /\ engSent > 0

\* C19: a Supervisor that entered its select loop (the Engine start succeeded)
\* eventually returns, whatever the Engine does, when time advances, the
\* timers fire and the select is fair to the hard-quit case.
C19_SupervisorReturns ==
  (supPc = "loop") ~> (supPc = "returned")

\* the Supervisor returned ForceQuitFailure from an Engine that ignored the
\* cancellation, sent every status it had and never closed the stream
C19_Witness ==
  /\ Returned
  /\ outcome = ErrForceQuit
  /\ timeoutOccured /\ ctxCancelled
  /\ ~chanClosed
  /\ engSent = MaxEvents

\* C20: no send is started or pending on the closed errorCh; errorCh is closed
\* only by the waiter goroutine with the WaitGroup at 0, every worker finished
\* and every reported error already received; finishedCh is closed only after
\* errorCh, so a receive from the closed errorCh adds nothing to the result.
C20_NoSendAfterClose ==
  /\ ~hist.sendOnClosed
  /\ errorChClosed =>
       /\ waiterPc \in {"closeFinished", "done"}
       /\ wg = 0
       /\ \A i \in DOMAIN worker :
            worker[i].pc \in {"done", "skipped"} /\ worker[i].sending = NoToken
       /\ Len(errWrapped) = Cardinality(hist.reported)
       /\ Range(errWrapped) = hist.reported
  /\ finishedChClosed => errorChClosed
  /\ (waiterPc = "closeFinished") => (errorChClosed /\ ~finishedChClosed)

\* errorCh is closed, finishedCh not yet: the aggregator, holding two reported
\* errors, can only receive nil from errorCh
C20_Witness ==
  /\ coordPc = "aggregate"
  /\ errorChClosed
  /\ ~finishedChClosed
  /\ Len(errWrapped) = 2
  /\ ENABLED AggReceiveClosed

====
